---- MODULE Spec2Model ----
(***************************************************************************)
(* Model of src/main.py: the card sampler get_memory, the probes           *)
(* get_card_uid and is_jcop, and the measurement loop of __main__.         *)
(***************************************************************************)
EXTENDS Integers, Sequences, FiniteSets, TLC

\* ------------------------------------------------------------------ bounds
\* Longest card payload explored by the decode specification.
MaxLen == 13

\* ------------------------------------------------------- program constants
\* get_memory gives up when retry > 10 (main.py:294).
RetryLimit == 10

\* --------------------------------------------------------- pure functions
Min(a, b) == IF a < b THEN a ELSE b

\* Python slice s[a:b] of a list (0-based, end exclusive, clipped to len(s)).
Slice(s, a, b) ==
    LET hi == Min(b, Len(s))
    IN  IF hi <= a THEN << >> ELSE [i \in 1..(hi - a) |-> s[a + i]]

\* int.from_bytes(bs, "big"); the empty sequence gives 0.
RECURSIVE FromBytesBig(_)
FromBytesBig(bs) ==
    IF bs = << >> THEN 0
    ELSE FromBytesBig(SubSeq(bs, 1, Len(bs) - 1)) * 256 + bs[Len(bs)]

HexDigit(d) ==
    CASE d = 0 -> "0" [] d = 1 -> "1" [] d = 2 -> "2" [] d = 3 -> "3"
      [] d = 4 -> "4" [] d = 5 -> "5" [] d = 6 -> "6" [] d = 7 -> "7"
      [] d = 8 -> "8" [] d = 9 -> "9" [] d = 10 -> "a" [] d = 11 -> "b"
      [] d = 12 -> "c" [] d = 13 -> "d" [] d = 14 -> "e" [] d = 15 -> "f"

\* f"{n:02x}" for a byte n.
Hex02(n) == HexDigit(n \div 16) \o HexDigit(n % 16)

\* hex(n) for a byte n: "0x" and the digits without a leading zero.
PyHex(n) ==
    IF n < 16 THEN "0x" \o HexDigit(n)
    ELSE "0x" \o HexDigit(n \div 16) \o HexDigit(n % 16)

\* The slice get_memory reads the persistent total from.
TotalField(data) == Slice(data, 5, 7)

\* memory_persistent_percentage = min(0.99, free / total), kept as an exact
\* fraction <<numerator, denominator>>; only evaluated when total > 0.
\* free / total > 0.99 is tested as 100 * (total - free) < total.
PersistentPercent(free, total) ==
    IF total - free <= 0 \/ 100 * (total - free) < total
    THEN <<99, 100>> ELSE <<free, total>>

\* memory_transient_free = min(1.0, ((reset + deselect) / 2.0) / 4096.0).
TransientPercent(reset, deselect) ==
    IF reset + deselect > 8192 THEN <<1, 1>> ELSE <<reset + deselect, 8192>>

\* "used" with the operands exchanged.
UsedSwapped(total, free) == free - total

\* persistent "used" entry of the returned dict.
Used(total, free) == total - free

NoneResult         == [kind |-> "None"]
NotInstalledResult == [kind |-> "NotInstalled"]
RaisedResult       == [kind |-> "Raised"]

\* The dict get_memory builds from a 90 00 response (main.py:311-341).
DecodeSnapshot(data) ==
    LET memory_persistent         == FromBytesBig(Slice(data, 0, 4))
        memory_persistent_total   == FromBytesBig(TotalField(data))
        memory_transient_reset    == FromBytesBig(Slice(data, 8, 10))
        memory_transient_deselect == FromBytesBig(Slice(data, 10, 12))
    IN  [kind       |-> "Snapshot",
         persistent |-> [free  |-> memory_persistent,
                         total |-> memory_persistent_total,
                         used  |-> Used(memory_persistent_total,
                                        memory_persistent),
                         percent_free |->
                             PersistentPercent(memory_persistent,
                                               memory_persistent_total)],
         transient  |-> [reset_free    |-> memory_transient_reset,
                         deselect_free |-> memory_transient_deselect,
                         percent_free  |->
                             TransientPercent(memory_transient_reset,
                                              memory_transient_deselect)]]

\* The division memory_persistent / memory_persistent_total raises
\* ZeroDivisionError when the total read from the response is 0.
DivisionRaises(data) == FromBytesBig(TotalField(data)) = 0

\* Respond with the status word formatted in upper case, so that the
\* comparison with "6a" never succeeds.
RespondUpperCase(s1, s2, data) ==
    IF s1 = 144 /\ s2 = 0
    THEN IF DivisionRaises(data) THEN RaisedResult ELSE DecodeSnapshot(data)
    ELSE IF Hex02(s1) = "6A" /\ Hex02(s2) = "82"
         THEN NotInstalledResult
         ELSE NoneResult

\* What get_memory does with an answered transmit (main.py:308-351).
Respond(s1, s2, data) ==
    IF s1 = 144 /\ s2 = 0
    THEN IF DivisionRaises(data) THEN RaisedResult ELSE DecodeSnapshot(data)
    ELSE IF Hex02(s1) = "6a" /\ Hex02(s2) = "82"
         THEN NotInstalledResult
         ELSE NoneResult

\* Does the path taken for this answer reach a connection.disconnect() ?
RespondDisconnects(s1, s2, data) ==
    IF s1 = 144 /\ s2 = 0
    THEN ~DivisionRaises(data)
    ELSE ~(Hex02(s1) = "6a" /\ Hex02(s2) = "82")

\* ------------------------------------------------------------- environment
\* Status words the card may answer: 90 00, 6A 82, 6A 86, 69 82.
StatusWords == {<<144, 0>>, <<106, 130>>, <<106, 134>>, <<105, 130>>}

\* free=1000 total=2000 reset=200 deselect=100
PrePayload  == <<0, 0, 3, 232, 0, 0, 7, 208, 0, 200, 0, 100>>
\* free=950 total=2000 reset=150 deselect=100
PostPayload == <<0, 0, 3, 182, 0, 0, 7, 208, 0, 150, 0, 100>>
\* free=100 total=128: bytes 5 and 6 of the response are zero
SmallTotalPayload == <<0, 0, 0, 100, 0, 0, 0, 128, 0, 200, 0, 100>>
\* an 8-byte answer: the two transient fields are missing
ShortPayload == <<0, 0, 3, 232, 0, 0, 7, 208>>

\* Payloads the card answers with in the full program.
CardPayloads == {PrePayload, PostPayload, SmallTotalPayload, << >>}

\* Byte values and payloads explored by the decode specification; every
\* 4-byte field over them stays below 2^31.
ByteVals == {0, 127}
RECURSIVE SeqsUpTo(_)
SeqsUpTo(n) ==
    IF n = 0 THEN {<< >>}
    ELSE LET shorter == SeqsUpTo(n - 1)
         IN  shorter \cup
             {Append(s, b) : s \in {t \in shorter : Len(t) = n - 1},
                             b \in ByteVals}
DecodePayloads == SeqsUpTo(MaxLen) \cup CardPayloads \cup {ShortPayload}

\* Where a connect/transmit attempt can raise CardConnectionException or
\* NoCardException: in connection.connect() or in connection.transmit().
FailPoints == {"connect", "transmit"}

\* ----------------------------------------------------------------- catalog
\* The releases the GitHub collaborator offers, flattened over REPOS, each
\* with the names of its .cap assets.
Releases ==
    << [tag_name |-> "v2.0",
        apps |-> {"vivokey-otp.cap", "javacard-memory.cap"}],
       [tag_name |-> "v1.0",
        apps |-> {"vivokey-otp.cap", "keycard.cap"}] >>

\* Position of a name in ascending string order (key of the sort of :443).
NameRank(n) ==
    CASE n = "javacard-memory.cap"        -> 1
      [] n = "keycard.cap"                -> 2
      [] n = "vivokey-otp.cap"            -> 3

\* First element of sorted(names, reverse=True).
FirstDescending(names) ==
    CHOOSE n \in names : \A m \in names : NameRank(m) <= NameRank(n)

\* A skip list that names the memory-counter applet only.
SkippedNamesMemoryOnly == {"javacard-memory.cap"}

\* Names the loop passes over (main.py:446).
SkippedNames == {"javacard-memory.cap", "keycard.cap"}

Null    == "<None>"
Unbound == [kind |-> "Unbound"]

\* What get_selected_manifest can yield for a parsed manifest: an AID and a
\* package version, or neither.
SelectedManifests ==
    { [kind |-> "Manifest", aid |-> "A0000005272101", app_version |-> "1.1"],
      [kind |-> "Manifest", aid |-> Null, app_version |-> Null] }

\* extract_manifest_from_cap gives a manifest or nothing.
ParseOutcomes == SelectedManifests \cup {[kind |-> "Unparsed"]}

Modes == {"app", "release", "all"}

\* The empty dict.
EmptyDict == [k \in {} |-> 0]

\* d[k] = v on a dict kept as a function.
DictSet(d, k, v) ==
    [x \in (DOMAIN d) \cup {k} |-> IF x = k THEN v ELSE d[x]]

\* Python truthiness of an optional string.
Truthy(x) == x # Null /\ x # ""

\* ------------------------------------------------------------------- state
VARIABLES
    pc,          \* position of __main__
    MODE,
    rel,         \* number of releases the outer loops have entered
    todo,        \* assets of the current release not yet iterated
    app_name,
    parsed_manifest,
    select_parsed_manifest,
    pre_install, post_install,
    storage, storage_by_app_version, storage_by_release,
    events,      \* what the loop has done for the asset it is on: download,
                 \* gp.exe invocations, samples taken, record
    completed,   \* <<tag, name>> of the targets that went through both
                 \* samples, the install and the uninstall
    probes,      \* what the startup checks observed
    gm_pc,       \* position of the running get_memory call: idle/try/answered
    retry,       \* get_memory's retry argument of the innermost activation
    attempts,    \* connect/transmit attempts made by the current call
    fails,       \* those of them that raised a connection error
    sw1, sw2,    \* status word of the answered transmit (-1: none yet)
    data,        \* payload of the answered transmit
    ret,         \* value the last get_memory call returned (or raised)
    open         \* functions holding a connection they did not disconnect

mainVars == <<MODE, rel, todo, app_name, parsed_manifest,
              select_parsed_manifest, storage, storage_by_app_version,
              storage_by_release, completed>>
gmLocals == <<retry, attempts, fails, sw1, sw2, data>>
vars == <<pc, mainVars, events, probes, pre_install, post_install,
          gm_pc, gmLocals, ret, open>>

\* One entry of events.
Event(op, name, arg) == [op |-> op, name |-> name, arg |-> arg]

\* How a gp.exe run can end; subprocess.run hands it back and nothing
\* reads it.
InstallerOutcomes == {"ok", "failed"}

NoCall == [kind |-> "NoCall"]

\* ---------------------------------------------------------------- get_memory
\* The bound of the commented-out handler (main.py:302) in place of the
\* live one.
GiveUpAfterThree(r) == r > 3

\* except-clause test of main.py:294.
GiveUp(r) == r > RetryLimit

\* Entry of get_memory(r) with the default retry=0 (main.py:498-514).
GmCall ==
    /\ gm_pc = "idle"
    /\ pc \in {"pre", "post"}
    /\ gm_pc' = "try"
    /\ retry' = 0
    /\ attempts' = 0
    /\ fails' = 0
    /\ UNCHANGED <<pc, mainVars, events, probes, sw1, sw2, data, ret, open,
                   pre_install, post_install>>

\* return v (or the exception leaving the function): the activation is over
\* and its value is with the caller.
Return(v) ==
    /\ ret' = v
    /\ gm_pc' = "returned"

\* One pass through the try block (main.py:267-292) that raises, and the
\* except clause (main.py:293-299).
GmAttemptFails ==
    /\ gm_pc = "try"
    /\ \E where \in FailPoints :
          open' = IF where = "transmit" THEN open \cup {"get_memory"} ELSE open
    /\ attempts' = attempts + 1
    /\ fails' = fails + 1
    /\ IF GiveUp(retry)
       THEN /\ Return(NoneResult)
            /\ UNCHANGED retry
       ELSE /\ retry' = retry + 1
            /\ UNCHANGED <<gm_pc, ret>>
    /\ UNCHANGED <<pc, mainVars, events, probes, pre_install, post_install,
                   sw1, sw2, data>>

\* One pass through the try block that is answered by the card.
GmAttemptAnswered ==
    /\ gm_pc = "try"
    /\ \E sw \in StatusWords, d \in CardPayloads :
          /\ sw1' = sw[1] /\ sw2' = sw[2] /\ data' = d
    /\ attempts' = attempts + 1
    /\ open' = open \cup {"get_memory"}
    /\ gm_pc' = "answered"
    /\ UNCHANGED <<pc, mainVars, events, probes, retry, fails, ret,
                   pre_install, post_install>>

\* main.py:308-351 on the answer held in sw1, sw2, data.
GmRespond ==
    /\ gm_pc = "answered"
    /\ open' = IF RespondDisconnects(sw1, sw2, data)
               THEN open \ {"get_memory"} ELSE open
    /\ Return(Respond(sw1, sw2, data))
    /\ UNCHANGED <<pc, mainVars, events, probes, pre_install, post_install,
                   gmLocals>>

\* A loop that writes the entry straight after the post-sample.
AfterPostRecord == "record"

\* Where __main__ goes with a post-sample that is not None: to the
\* uninstall of main.py:516.
AfterPost == "uninstall"

\* The call site takes the value: pre_install = get_memory(r) with the test
\* of "while pre_install is None" (main.py:498-501), or the same for
\* post_install (main.py:512-514).  An exception is caught nowhere.
TakeSample ==
    /\ gm_pc = "returned"
    /\ gm_pc' = "idle"
    /\ retry' = 0 /\ attempts' = 0 /\ fails' = 0
    /\ sw1' = -1 /\ sw2' = -1 /\ data' = << >>
    /\ ret' = NoCall
    /\ IF ret = RaisedResult
       THEN pc' = "crashed" /\ UNCHANGED <<pre_install, post_install, events>>
       ELSE IF pc = "pre"
            THEN /\ pre_install' = ret
                 /\ pc' = IF ret = NoneResult THEN "pre" ELSE "install"
                 /\ events' = IF ret = NoneResult THEN events
                              ELSE Append(events,
                                          Event("pre", app_name, ret.kind))
                 /\ UNCHANGED post_install
            ELSE /\ post_install' = ret
                 /\ pc' = IF ret = NoneResult THEN "post" ELSE AfterPost
                 /\ events' = IF ret = NoneResult THEN events
                              ELSE Append(events,
                                          Event("post", app_name, ret.kind))
                 /\ UNCHANGED pre_install
    /\ UNCHANGED <<mainVars, probes, open>>

\* ------------------------------------------------------------------ probes
HexDigitUpper(d) ==
    CASE d < 10 -> HexDigit(d)
      [] d = 10 -> "A" [] d = 11 -> "B" [] d = 12 -> "C"
      [] d = 13 -> "D" [] d = 14 -> "E" [] d = 15 -> "F"

\* smartcard.util.toHexString: "3B 65 00", the empty string for no bytes.
RECURSIVE ToHexString(_)
ToHexString(bs) ==
    IF bs = << >> THEN ""
    ELSE LET last == bs[Len(bs)]
             two  == HexDigitUpper(last \div 16) \o HexDigitUpper(last % 16)
         IN  IF Len(bs) = 1 THEN two
             ELSE ToHexString(SubSeq(bs, 1, Len(bs) - 1)) \o " " \o two

\* Responses to GET UID.
UidResponses == {<< >>, <<4, 161, 59>>}

\* A get_card_uid that returns the response bytes without looking at the
\* status word.
CardUidAnyStatus(s1, s2, response) == ToHexString(response)

\* Value of get_card_uid for an answered transmit (main.py:255-257).
CardUid(s1, s2, response) ==
    IF <<s1, s2>> = <<144, 0>> THEN ToHexString(response) ELSE Null

\* Value of is_jcop for an answered transmit (main.py:243).
IsJcopAnswer(s1, s2) == PyHex(s1) = "0x90" /\ s2 = 0

\* Nothing probed yet: readers -1, no status words.
NoProbes ==
    [readers |-> -1, uid_sw |-> << >>, uid_response |-> << >>,
     jcop_sw |-> << >>]

\* The entry of probes for a probe whose connect or transmit raised.
RaisedSw == <<-1, -1>>

\* readers() and the test of main.py:399.
Start ==
    /\ pc = "start"
    /\ \E n \in {0, 1} :
         /\ probes' = [probes EXCEPT !.readers = n]
         /\ pc' = IF n = 0 THEN "exit" ELSE "uid"
    /\ UNCHANGED <<mainVars, events, pre_install, post_install, gm_pc,
                   gmLocals, ret, open>>

\* uid = get_card_uid(r) and the test of main.py:408.  The function never
\* disconnects: a connection that reached connect() stays open.
GetCardUid ==
    /\ pc = "uid"
    /\ \/ /\ \E where \in FailPoints :
               open' = IF where = "transmit"
                       THEN open \cup {"get_card_uid"} ELSE open
          /\ probes' = [probes EXCEPT !.uid_sw = RaisedSw]
          /\ pc' = "exit"
       \/ \E sw \in StatusWords, response \in UidResponses :
            /\ open' = open \cup {"get_card_uid"}
            /\ probes' = [probes EXCEPT !.uid_sw = sw,
                                        !.uid_response = response]
            /\ pc' = IF Truthy(CardUid(sw[1], sw[2], response))
                     THEN "jcop" ELSE "exit"
    /\ UNCHANGED <<mainVars, events, pre_install, post_install, gm_pc,
                   gmLocals, ret>>

\* is_jcop(r) and the test of main.py:414.  No disconnect here either.
IsJcop ==
    /\ pc = "jcop"
    /\ \/ /\ \E where \in FailPoints :
               open' = IF where = "transmit"
                       THEN open \cup {"is_jcop"} ELSE open
          /\ probes' = [probes EXCEPT !.jcop_sw = RaisedSw]
          /\ pc' = "exit"
       \/ \E sw \in StatusWords :
            /\ open' = open \cup {"is_jcop"}
            /\ probes' = [probes EXCEPT !.jcop_sw = sw]
            /\ pc' = IF IsJcopAnswer(sw[1], sw[2]) THEN "release" ELSE "exit"
    /\ UNCHANGED <<mainVars, events, pre_install, post_install, gm_pc,
                   gmLocals, ret>>

\* ------------------------------------------------------- measurement loop
\* Head of the loops over REPOS and releases (main.py:421-441), and the
\* end of the run (main.py:561-578).
NextRelease ==
    /\ pc = "release"
    /\ IF rel < Len(Releases)
       THEN /\ rel' = rel + 1
            /\ todo' = Releases[rel + 1].apps
            /\ storage' = EmptyDict
            /\ pc' = "loop"
       ELSE /\ pc' = "done"
            /\ UNCHANGED <<rel, todo, storage>>
    /\ UNCHANGED <<MODE, app_name, parsed_manifest, select_parsed_manifest,
                   storage_by_app_version, storage_by_release, completed,
                   events, probes,
                   pre_install, post_install, gm_pc, gmLocals, ret, open>>

\* A test of the release's own dict, which main.py:441 has just emptied.
DocumentedInRelease(name, version) == name \in DOMAIN storage

\* storage_by_app_version.get(app) and .get(version) are both truthy
\* (main.py:472-478); the dict of dicts is kept as a dict on pairs.
Documented(name, version) == <<name, version>> \in DOMAIN storage_by_app_version

\* Head of the loop over the assets (main.py:443-447) for a passed-over name.
SkipName ==
    /\ pc = "loop"
    /\ todo # {}
    /\ LET n == FirstDescending(todo)
       IN  /\ n \in SkippedNames
           /\ todo' = todo \ {n}
           /\ app_name' = n
    /\ events' = << >>
    /\ UNCHANGED <<pc, MODE, rel, parsed_manifest, select_parsed_manifest,
                   storage, storage_by_app_version, storage_by_release,
                   completed, probes,
                   pre_install, post_install, gm_pc, gmLocals, ret, open>>

\* A pre-delete issued for every parsed manifest, AID or not.
PreDeleteUnchecked(name, parsed) ==
    IF parsed.kind = "Manifest"
    THEN << Event("delete", name, parsed.aid) >>
    ELSE << >>

\* The gp.exe --delete of main.py:484-494 for the manifest just parsed: issued
\* inside "if parsed_manifest" when the selected AID is not None.
PreDelete(name, parsed) ==
    IF parsed.kind = "Manifest" /\ parsed.aid # Null
    THEN << Event("delete", name, parsed.aid) >>
    ELSE << >>

\* One asset taken from the download to the pre-delete (main.py:449-496).
\* The download is taken to succeed.
NextApp ==
    /\ pc = "loop"
    /\ todo # {}
    /\ LET n == FirstDescending(todo)
       IN  /\ n \notin SkippedNames
           /\ todo' = todo \ {n}
           /\ app_name' = n
           /\ \E parsed \in ParseOutcomes :
                /\ parsed_manifest' = parsed
                /\ IF parsed.kind = "Manifest"
                   THEN /\ select_parsed_manifest' = parsed
                        /\ IF /\ Truthy(parsed.app_version)
                              /\ MODE = "app"
                              /\ Documented(n, parsed.app_version)
                           THEN /\ pc' = "loop"
                                /\ events' = << Event("download", n, "-") >>
                           ELSE /\ pc' = "pre"
                                /\ events' = << Event("download", n, "-") >>
                                             \o PreDelete(n, parsed)
                   ELSE /\ pc' = "pre"
                        /\ events' = << Event("download", n, "-") >>
                                     \o PreDelete(n, parsed)
                        /\ UNCHANGED select_parsed_manifest
    /\ UNCHANGED <<MODE, rel, storage, storage_by_app_version,
                   storage_by_release, completed, probes,
                   pre_install, post_install, gm_pc, gmLocals, ret, open>>

\* An install that first deletes what it is about to load.
InstallCallsDeleteFirst(name, outcome) ==
    << Event("delete", name, "-"), Event("install", name, outcome) >>

\* The gp.exe run of main.py:505-508.
InstallCalls(name, outcome) == << Event("install", name, outcome) >>

\* An install that gives the target up when gp.exe reports a failure.
InstallAbortsOnFailure ==
    /\ pc = "install"
    /\ \E outcome \in InstallerOutcomes :
         /\ events' = events \o << Event("install", app_name, outcome) >>
         /\ pc' = IF outcome = "ok" THEN "post" ELSE "loop"
    /\ UNCHANGED <<mainVars, probes,
                   pre_install, post_install, gm_pc, gmLocals, ret, open>>

\* gp.exe --install download_path (main.py:503-510); its outcome is not read.
Install ==
    /\ pc = "install"
    /\ \E outcome \in InstallerOutcomes :
         events' = events \o InstallCalls(app_name, outcome)
    /\ pc' = "post"
    /\ UNCHANGED <<mainVars, probes,
                   pre_install, post_install, gm_pc, gmLocals, ret, open>>

\* Both samples of the target are dicts.
BothSnapshots == pre_install.kind = "Snapshot" /\ post_install.kind = "Snapshot"

\* gp.exe --uninstall download_path (main.py:516-519).
Uninstall ==
    /\ pc = "uninstall"
    /\ \E outcome \in InstallerOutcomes :
         events' = Append(events, Event("uninstall", app_name, outcome))
    /\ completed' = IF BothSnapshots
                    THEN completed \cup {<<Releases[rel].tag_name, app_name>>}
                    ELSE completed
    /\ pc' = "record"
    /\ UNCHANGED <<MODE, rel, todo, app_name, parsed_manifest,
                   select_parsed_manifest, storage, storage_by_app_version,
                   storage_by_release, probes,
                   pre_install, post_install, gm_pc, gmLocals, ret, open>>

\* "persistent" taken as pre minus post, the way "transient" is.
PersistentDeltaPreMinusPost(pre, post) ==
    pre.persistent.used - post.persistent.used

\* "persistent" of the storage entry (main.py:523-524).
PersistentDelta(pre, post) == post.persistent.used - pre.persistent.used

\* "transient" of the storage entry (main.py:525-532).
TransientDelta(pre, post) ==
    (pre.transient.reset_free + pre.transient.deselect_free)
    - (post.transient.reset_free + post.transient.deselect_free)

\* Building the entry raises NameError when no manifest was ever parsed and
\* TypeError when a sample is -1 (an int is not subscriptable).
RecordRaises ==
    \/ select_parsed_manifest = Unbound
    \/ pre_install.kind # "Snapshot"
    \/ post_install.kind # "Snapshot"

\* storage[app_name] = {...} (main.py:521-533).
Record ==
    /\ pc = "record"
    /\ IF RecordRaises
       THEN pc' = "crashed" /\ UNCHANGED <<storage, events>>
       ELSE /\ storage' =
                 DictSet(storage, app_name,
                         [meta       |-> select_parsed_manifest,
                          persistent |-> PersistentDelta(pre_install,
                                                         post_install),
                          transient  |-> TransientDelta(pre_install,
                                                        post_install)])
            /\ events' = Append(events, Event("record", app_name, "-"))
            /\ pc' = "recorded"
    /\ UNCHANGED <<MODE, rel, todo, app_name, parsed_manifest,
                   select_parsed_manifest, storage_by_app_version,
                   storage_by_release, completed, probes,
                   pre_install, post_install, gm_pc, gmLocals, ret, open>>

\* os.remove and the two prints that end the iteration (main.py:534-542).
Cleanup ==
    /\ pc = "recorded"
    /\ pc' = "loop"
    /\ UNCHANGED <<mainVars, events, probes, pre_install, post_install,
                   gm_pc, gmLocals, ret, open>>

DeltaOf(entry) ==
    [persistent |-> entry.persistent, transient |-> entry.transient]

\* The loop "for app in storage" after a release's assets (main.py:544-559).
Flush ==
    /\ pc = "loop"
    /\ todo = {}
    /\ storage_by_app_version' =
         IF MODE \in {"app", "all"}
         THEN [k \in (DOMAIN storage_by_app_version) \cup
                     {<<a, storage[a].meta.app_version>> : a \in DOMAIN storage}
               |-> IF k[1] \in DOMAIN storage
                      /\ k[2] = storage[k[1]].meta.app_version
                   THEN DeltaOf(storage[k[1]])
                   ELSE storage_by_app_version[k]]
         ELSE storage_by_app_version
    /\ storage_by_release' =
         IF MODE \in {"release", "all"}
         THEN [k \in (DOMAIN storage_by_release) \cup
                     {<<Releases[rel].tag_name, a>> : a \in DOMAIN storage}
               |-> IF k[1] = Releases[rel].tag_name /\ k[2] \in DOMAIN storage
                   THEN DeltaOf(storage[k[2]])
                   ELSE storage_by_release[k]]
         ELSE storage_by_release
    /\ pc' = "release"
    /\ UNCHANGED <<MODE, rel, todo, app_name, parsed_manifest,
                   select_parsed_manifest, storage, completed, events, probes,
                   pre_install, post_install, gm_pc, gmLocals, ret, open>>

\* ---------------------------------------------------------- specifications
Init ==
    /\ pc = "start"
    /\ MODE \in Modes
    /\ rel = 0
    /\ todo = {}
    /\ app_name = Null
    /\ parsed_manifest = Unbound
    /\ select_parsed_manifest = Unbound
    /\ pre_install = NoCall
    /\ post_install = NoCall
    /\ storage = EmptyDict
    /\ storage_by_app_version = EmptyDict
    /\ storage_by_release = EmptyDict
    /\ events = << >>
    /\ completed = {}
    /\ probes = NoProbes
    /\ gm_pc = "idle"
    /\ retry = 0
    /\ attempts = 0
    /\ fails = 0
    /\ sw1 = -1 /\ sw2 = -1 /\ data = << >>
    /\ ret = NoCall
    /\ open = {}

Next ==
    \/ Start
    \/ GetCardUid
    \/ IsJcop
    \/ NextRelease
    \/ SkipName
    \/ NextApp
    \/ GmCall
    \/ GmAttemptFails
    \/ GmAttemptAnswered
    \/ GmRespond
    \/ TakeSample
    \/ Install
    \/ Uninstall
    \/ Record
    \/ Cleanup
    \/ Flush

Spec == Init /\ [][Next]_vars

\* get_memory on one answered transmit: the answer is drawn from every
\* status word and every payload of DecodePayloads, and main.py:308-351 is
\* applied to it.  The call is the pre-sample of the first target.
InitDecode ==
    /\ pc = "pre"
    /\ MODE = "app"
    /\ rel = 1
    /\ todo = {}
    /\ app_name = "vivokey-otp.cap"
    /\ select_parsed_manifest \in {m \in SelectedManifests : m.aid # Null}
    /\ parsed_manifest = select_parsed_manifest
    /\ pre_install = NoCall
    /\ post_install = NoCall
    /\ storage = EmptyDict
    /\ storage_by_app_version = EmptyDict
    /\ storage_by_release = EmptyDict
    /\ events = << Event("download", app_name, "-") >>
                \o PreDelete(app_name, parsed_manifest)
    /\ completed = {}
    /\ probes = [readers |-> 1, uid_sw |-> <<144, 0>>,
                 uid_response |-> <<4, 161, 59>>, jcop_sw |-> <<144, 0>>]
    /\ gm_pc = "answered"
    /\ retry = 0
    /\ attempts = 1
    /\ fails = 0
    /\ \E sw \in StatusWords : sw1 = sw[1] /\ sw2 = sw[2]
    /\ data \in DecodePayloads
    /\ ret = NoCall
    /\ open = {"get_card_uid", "is_jcop", "get_memory"}

NextDecode == GmRespond

SpecDecode == InitDecode /\ [][NextDecode]_vars

\* ------------------------------------------------------------------ claims
\* A call of get_memory has returned (or raised) and its value is not yet
\* taken by the call site.
Returned == gm_pc = "returned"

\* The call ended on an answered transmit, not by giving up.
Answered == sw1 # -1

\* A payload get_memory decodes without raising: 12 bytes or more, and the
\* total it reads is not zero.
WellFormed(d) == Len(d) >= 12 /\ ~DivisionRaises(d)

\* C1: when the transport raised a connection error on exactly the first
\* k < 10 attempts of a call and the next attempt was answered, the call
\* did not give up and made exactly k+1 attempts; when that answer is 90 00
\* with a well-formed payload the call returned a Snapshot.
C1_RetrySuccess ==
    (Returned /\ fails < 10) =>
        /\ Answered
        /\ attempts = fails + 1
        /\ (sw1 = 144 /\ sw2 = 0 /\ WellFormed(data) => ret.kind = "Snapshot")

C1_Witness ==
    /\ Returned
    /\ fails = 9
    /\ attempts = 10
    /\ ret.kind = "Snapshot"

\* C2: a call makes at most 10 connect/transmit attempts, never a 12th, and
\* a call whose first 10 attempts (or more) raised returns None, not a
\* Snapshot.
C2_RetryBound ==
    /\ attempts <= 10
    /\ attempts < 12
    /\ (Returned /\ fails >= 10 => ret = NoneResult)

\* C3: a memory-applet SELECT answered 6A 82 makes get_memory return
\* NotInstalled (-1) whatever the payload: not a Snapshot, not None, no
\* exception, and no attempt after the answered one.
C3_NotInstalled ==
    (Returned /\ sw1 = 106 /\ sw2 = 130) =>
        /\ ret = NotInstalledResult
        /\ attempts = fails + 1

C3_Witness ==
    /\ Returned
    /\ sw1 = 106 /\ sw2 = 130
    /\ Len(data) >= 12
    /\ fails > 0
    /\ ret = NotInstalledResult

\* C4: outside the stretch between an answered transmit and the end of
\* get_memory, no connection opened by get_card_uid, is_jcop or get_memory
\* is still open: every exit path and every retried error has released it.
C4_ConnectionsReleased == gm_pc # "answered" => open = {}

\* Big-endian value of the four bytes d[o:o+4] and of the two bytes d[o:o+2]
\* of a response (offsets from 0), written out.
BigEndian4(d, o) ==
    ((d[o + 1] * 256 + d[o + 2]) * 256 + d[o + 3]) * 256 + d[o + 4]
BigEndian2(d, o) == d[o + 1] * 256 + d[o + 2]

\* A 90 00 answer of at least 12 bytes has been processed by get_memory.
DecodedLong == Returned /\ sw1 = 144 /\ sw2 = 0 /\ Len(data) >= 12

\* C5: the Snapshot returned for a 90 00 response of at least 12 bytes has
\* persistent free = bytes[0:4], persistent total = bytes[4:8], transient
\* reset_free = bytes[8:10] and deselect_free = bytes[10:12], big-endian.
C5_DecodeLayout ==
    (DecodedLong /\ ret.kind = "Snapshot") =>
        /\ ret.persistent.free = BigEndian4(data, 0)
        /\ ret.persistent.total = BigEndian4(data, 4)
        /\ ret.transient.reset_free = BigEndian2(data, 8)
        /\ ret.transient.deselect_free = BigEndian2(data, 10)

\* C6: for every 90 00 response of 12 or more bytes, whatever the bytes,
\* get_memory returns a Snapshot and raises nothing.
C6_DecodeTotal == DecodedLong => ret.kind = "Snapshot"

\* C7: a 90 00 answer of fewer than 12 bytes ends get_memory with the
\* failure value: no Snapshot from the partial bytes and no exception
\* leaving the function.
C7_ShortResponse ==
    (Returned /\ sw1 = 144 /\ sw2 = 0 /\ Len(data) < 12) => ret = NoneResult

\* C8: every Snapshot get_memory returns has 0 <= persistent.free <=
\* persistent.total, so persistent.used is not negative.
C8_FreeWithinTotal ==
    (Returned /\ ret.kind = "Snapshot") =>
        /\ 0 <= ret.persistent.free
        /\ ret.persistent.free <= ret.persistent.total
        /\ ret.persistent.used >= 0

\* C9: every Snapshot get_memory returns has
\* persistent.used + persistent.free = persistent.total.
C9_UsedPlusFree ==
    (Returned /\ ret.kind = "Snapshot") =>
        ret.persistent.used + ret.persistent.free = ret.persistent.total

C9_Witness ==
    /\ Returned
    /\ ret.kind = "Snapshot"
    /\ ret.persistent.free > 0
    /\ ret.persistent.total > 0
    /\ ret.persistent.free # ret.persistent.total

\* Corrections a caller could ask for: none, and the 256 bytes of the
\* container-overhead case.
Corrections == {0, 256}

\* The delta formula on the fields of two Snapshots, with a correction.
ClaimedPersistent(pre, post, correction) ==
    (post.persistent.total - post.persistent.free)
    - (pre.persistent.total - pre.persistent.free) - correction
ClaimedTransient(pre, post) ==
    pre.transient.reset_free + pre.transient.deselect_free
    - post.transient.reset_free - post.transient.deselect_free

\* The storage entry of the target just recorded.
JustRecorded == pc = "recorded"

Did(op) == \E i \in DOMAIN events : events[i].op = op

\* C11: the install of a target is invoked only when the target's pre-sample
\* resolved to a Snapshot, never on NotInstalled (-1) or on None.
C11_InstallGated == Did("install") => pre_install.kind = "Snapshot"

\* C12: a target install that follows a pre-sample answered NotInstalled is
\* preceded by an install of the memory-counter applet and by a new sample
\* taken after that install.
C12_Bootstrap ==
    \A j \in DOMAIN events :
        (/\ events[j].op = "install"
         /\ events[j].name = app_name
         /\ \E i \in 1..(j - 1) : events[i] = Event("pre", app_name,
                                                     "NotInstalled"))
        => \E k \in 1..(j - 1), l \in 1..(j - 1) :
              /\ k < l
              /\ events[k].op = "install"
              /\ events[k].name = "javacard-memory.cap"
              /\ events[l].op = "pre"

\* The steps of one measurement cycle, in the order of main.py:498-533.
Cycle == << "pre", "install", "post", "uninstall", "record" >>

IsCycleOp(e) == e.op \notin {"download", "delete"}

\* The events of the current asset from its pre-sample on.
Body == SelectSeq(events, IsCycleOp)

\* C13: the events of a target from its pre-sample on are a prefix of
\* pre-sample, install, post-sample, uninstall, record.  After the install,
\* whatever gp.exe reported, the program is at the post-sample (or has
\* crashed inside it); after a resolved post-sample it is at the uninstall;
\* a delta is recorded only after all four.
C13_CycleOrder ==
    /\ Len(Body) <= Len(Cycle)
    /\ \A i \in DOMAIN Body :
          Body[i].op = Cycle[i] /\ Body[i].name = app_name
    /\ (Len(Body) = 2 => pc \in {"post", "crashed"})
    /\ (Len(Body) = 3 => pc = "uninstall")
    /\ (Len(Body) = 4 => pc \in {"record", "crashed"})
    /\ (pc = "recorded" => Len(Body) = 5)

\* A target whose install failed and whose delta is recorded all the same.
C13_Witness ==
    /\ pc = "recorded"
    /\ Len(Body) = 5
    /\ Body[2] = Event("install", app_name, "failed")
    /\ Body[3] = Event("post", app_name, "Snapshot")
    /\ app_name \in DOMAIN storage

\* C14: a target that ends in a fatal condition (a sample that is None or
\* -1, or a response that cannot be decoded) does not crash the run.
C14_NoCrash == pc # "crashed"

\* C15: after a get_memory call that returned None the orchestrator does
\* not call get_memory again for the same sample: no call is in progress
\* for a sample whose last value is None.
C15_NoResample ==
    /\ (pc = "pre" /\ gm_pc # "idle" => pre_install # NoneResult)
    /\ (pc = "post" /\ gm_pc # "idle" => post_install # NoneResult)

\* C16: from the pre-sample of a target to its post-sample there is exactly
\* one installer invocation, the install of that target: the event after
\* the pre-sample is that install, the one after it is the post-sample, and
\* while the post-sample is being taken nothing else has been invoked.
C16_Pairing ==
    \A i \in DOMAIN events :
        events[i].op = "pre" =>
            /\ events[i].name = app_name
            /\ (Len(events) > i
                   => /\ events[i + 1].op = "install"
                      /\ events[i + 1].name = app_name)
            /\ (Len(events) > i + 1 => events[i + 2].op = "post")
            /\ (pc = "post" => Len(events) = i + 1)

\* Both samples of a target taken, with one install between them.
C16_Witness ==
    \E i \in DOMAIN events :
        /\ events[i] = Event("pre", app_name, "Snapshot")
        /\ Len(events) >= i + 2
        /\ events[i + 1].op = "install"
        /\ events[i + 2] = Event("post", app_name, "Snapshot")

\* C17: storage, storage_by_app_version and storage_by_release hold an entry
\* only for a target that went through the whole cycle: a pre-sample that is
\* a Snapshot, the install, a post-sample that is a Snapshot, the uninstall.
\* A passed-over or aborted target has none.
C17_RecordedOnly ==
    /\ \A a \in DOMAIN storage : <<Releases[rel].tag_name, a>> \in completed
    /\ \A k \in DOMAIN storage_by_release : k \in completed
    /\ \A k \in DOMAIN storage_by_app_version :
          \E c \in completed : c[2] = k[1]
    /\ \A c \in completed : c[2] \notin SkippedNames

\* A run in mode "all" that ended with both releases' targets measured and
\* written to both mappings.
C17_Witness ==
    /\ pc = "done"
    /\ MODE = "all"
    /\ Cardinality(completed) = Len(Releases)
    /\ DOMAIN storage_by_release = completed
    /\ DOMAIN storage_by_app_version # {}

\* The three startup checks, as the transport answered them.
ReaderPassed == probes.readers > 0
UidPassed    == probes.uid_sw = <<144, 0>> /\ probes.uid_response # << >>
JcopPassed   == probes.jcop_sw = <<144, 0>>

UidProbed  == probes.uid_sw # << >>
JcopProbed == probes.jcop_sw # << >>

\* A memory sample has been asked for or an asset has been downloaded or
\* handed to gp.exe.
Activity ==
    \/ events # << >>
    \/ gm_pc # "idle"
    \/ pre_install # NoCall
    \/ post_install # NoCall
    \/ "get_memory" \in open

\* C18: sampling and gp.exe are reached only after a reader was found, the
\* UID probe gave a UID and the root SELECT answered 90 00, probed in that
\* order; when one of the three fails the run exits with no sample taken
\* and no gp.exe invocation.
C18_StartupGating ==
    /\ (Activity \/ pc \notin {"start", "uid", "jcop", "exit"})
           => ReaderPassed /\ UidPassed /\ JcopPassed
    /\ (UidProbed => ReaderPassed)
    /\ (JcopProbed => UidPassed)
    /\ ((\/ probes.readers = 0
         \/ UidProbed /\ ~UidPassed
         \/ JcopProbed /\ ~JcopPassed) => pc = "exit" /\ ~Activity)
    /\ (pc = "exit" => ~(ReaderPassed /\ UidPassed /\ JcopPassed))

\* The first sample is being taken after the three checks passed.
C18_Witness ==
    /\ pc = "pre"
    /\ gm_pc = "try"
    /\ pre_install = NoCall
    /\ ReaderPassed /\ UidPassed /\ JcopPassed

\* The manifest of the asset the loop is on was parsed and has an AID.
HasAid == parsed_manifest.kind = "Manifest" /\ parsed_manifest.aid # Null

\* Positions of the gp.exe --delete invocations of the current asset.
Deletes == {i \in DOMAIN events : events[i].op = "delete"}

\* The current asset is in its measurement cycle.
InCycle ==
    \/ pc \in {"pre", "install", "post", "uninstall", "record", "recorded"}
    \/ Did("pre")

\* C19: a target in its cycle whose manifest was parsed with a non-null AID
\* has had exactly one delete, of that AID, invoked right after the download
\* and before the pre-sample, and none after; a target whose manifest was
\* not parsed (or has no AID) has had none, and an unparsed target is at its
\* pre-sample right after the download.
C19_CleanBaseline ==
    /\ InCycle =>
          IF HasAid
          THEN /\ Deletes = {2}
               /\ events[2] = Event("delete", app_name, parsed_manifest.aid)
               /\ \A i \in DOMAIN events :
                     events[i].op \in {"pre", "post"} => i > 2
          ELSE Deletes = {}
    /\ (events # << >> /\ parsed_manifest.kind = "Unparsed") =>
          /\ Deletes = {}
          /\ (Len(events) = 1 => pc \in {"pre", "crashed"})

\* A parsed target with an AID, deleted before its pre-sample and now past
\* its post-sample.
C19_Witness ==
    /\ HasAid
    /\ Did("post")
    /\ events[2] = Event("delete", app_name, "A0000005272101")
    /\ events[3].op = "pre"

\* The two assets the claim names.
Protected == {"javacard-memory.cap", "keycard.cap"}

\* C20: javacard-memory.cap and keycard.cap are never downloaded, deleted,
\* installed or uninstalled by the loop, nor sampled for or recorded: when
\* the loop is on one of them nothing has been done for it.
C20_ReferenceProtected ==
    /\ \A i \in DOMAIN events : events[i].name \notin Protected
    /\ (app_name \in Protected => events = << >> /\ pc \notin {"pre",
            "install", "post", "uninstall", "record", "recorded"})
    /\ \A a \in DOMAIN storage : a \notin Protected

\* The loop has measured vivokey-otp.cap and is passing over
\* javacard-memory.cap in the same release.
C20_Witness ==
    /\ app_name = "javacard-memory.cap"
    /\ events = << >>
    /\ pc = "loop"
    /\ "vivokey-otp.cap" \in DOMAIN storage

\* The asset the loop is on has a parsed manifest with a package version.
HasVersion ==
    parsed_manifest.kind = "Manifest" /\ Truthy(parsed_manifest.app_version)

\* The (app name, app version) pair the asset offers.
OfferedPair == <<app_name, parsed_manifest.app_version>>

\* This step downloads an asset and parses its manifest.
TakesAsset == pc = "loop" /\ todo # {} /\ events' # << >>

\* This step runs gp.exe --install.
InstallStep ==
    /\ Len(events') > Len(events)
    /\ events'[Len(events')].op = "install"

\* C21: in mode "app", an asset whose (name, non-null version) pair already
\* has a stored delta is passed over with nothing but its download: no
\* delete, sample, install or uninstall, and the three mappings are left as
\* they were; a pair that has a stored delta keeps having one, and an
\* install is run only for a pair that has none, so each pair is installed
\* at most once.
C21_MeasureOnce ==
    [][ MODE = "app" =>
          /\ (/\ TakesAsset
              /\ HasVersion'
              /\ OfferedPair' \in DOMAIN storage_by_app_version)
                => /\ pc' = "loop"
                   /\ events' = << Event("download", app_name', "-") >>
                   /\ gm_pc' = "idle"
                   /\ UNCHANGED << storage, storage_by_app_version,
                                   storage_by_release, completed,
                                   pre_install, post_install >>
          /\ DOMAIN storage_by_app_version
                \subseteq DOMAIN storage_by_app_version'
          /\ (InstallStep /\ HasVersion)
                => OfferedPair \notin DOMAIN storage_by_app_version
      ]_vars

\* The second release offers vivokey-otp.cap 1.1, measured in the first,
\* and the loop has passed it over.
C21_Witness ==
    /\ MODE = "app"
    /\ rel = Len(Releases)
    /\ pc = "loop"
    /\ HasVersion
    /\ OfferedPair \in DOMAIN storage_by_app_version
    /\ events = << Event("download", app_name, "-") >>
    /\ storage = EmptyDict

====
